---------------------------- MODULE Spec2Model ----------------------------
(***************************************************************************)
(* Model of the ragged all-to-all thunk of XLA's GPU runtime               *)
(* (nccl_ragged_all_to_all_thunk.cc): the per-device host staging buffer   *)
(* cache filled by Initialize, the lookup in RunNcclCollective, and the    *)
(* transfer RunRaggedAllToAll, which stages four index arrays to the host, *)
(* decodes them through IntegerOperandData and issues one Send and one     *)
(* Recv per peer inside a GroupStart/GroupEnd scope.                       *)
(*                                                                         *)
(* Memory is modelled in 16-bit limbs (little endian): an int32 is two     *)
(* limbs, an int64 four.  A 64-bit value is kept as its four limbs, so     *)
(* decoding and the multiplication by the row size are exact modulo 2^64.  *)
(***************************************************************************)
EXTENDS Integers, Sequences, FiniteSets, TLC

(***************************************************************************)
(* Bounds of the model.                                                    *)
(***************************************************************************)
\* largest number of ragged rows R (length of every index array)
MaxRows == 2
\* largest number of ranks N reported by the communicator
MaxRanks == 2
\* largest value stored in an index array; the index data are IndexValue
MaxIdx == 4
\* largest ragged_row_element_size
MaxRowElems == 2

(***************************************************************************)
(* Threads and devices (stream executors), as names.                       *)
(***************************************************************************)
ThreadNames == << "t1", "t2", "t3", "t4" >>
DeviceNames == << "gpu0", "gpu1", "gpu2", "gpu3" >>
Thread == {"t1", "t2"}
Device == {"gpu0", "gpu1"}
NoThread == "none"

\* the rank of the thread t in its communicator, when thread i drives rank i
Rank(t) == (CHOOSE r \in 1..Len(ThreadNames) : ThreadNames[r] = t) - 1
RankThread(r) == ThreadNames[r + 1]
RankDevice(r) == DeviceNames[r + 1]

(***************************************************************************)
(* Element types and their layout.                                         *)
(***************************************************************************)
LimbBase == 2^16

ElemTypes == {"S32", "U32", "S64", "U64", "S16"}

\* the element types IntegerOperandData::get has a case for
IsSupported(element_type) == element_type \in {"S32", "U32", "S64", "U64"}

\* size of one element in limbs (primitive byte width / 2)
LimbsOf(element_type) ==
    CASE element_type \in {"S32", "U32"} -> 2
      [] element_type \in {"S64", "U64"} -> 4
      [] OTHER -> 1

\* limbs of one int64_t: host_buffer_alloc is an int64_t*
Int64Limbs == LimbsOf("S64")

\* the number of index operands: index_operands[0] .. index_operands[3]
NumIndexOperands == 4

\* little-endian two's complement limbs of the integer x, 64 bits wide
I64(x) ==
    LET sign == IF x < 0 THEN LimbBase - 1 ELSE 0
    IN  << x % LimbBase, (x \div LimbBase) % LimbBase, sign, sign >>

\* the first k limbs of x: the stored form of x in an element of k limbs
Enc(x, k) == SubSeq(I64(x), 1, k)

\* v * n modulo 2^64, on limbs, for a natural n (int64_t multiplication)
Mul64(v, n) ==
    LET p1 == v[1] * n
        p2 == v[2] * n + (p1 \div LimbBase)
        p3 == v[3] * n + (p2 \div LimbBase)
        p4 == v[4] * n + (p3 \div LimbBase)
    IN  << p1 % LimbBase, p2 % LimbBase, p3 % LimbBase, p4 % LimbBase >>

\* a limb of memory; a read outside the allocation yields the limb g
Load(mem, pos, g) == IF pos \in 1..Len(mem) THEN mem[pos] ELSE g

\* IntegerOperandData::get(i) for a supported element type: data is the
\* limb offset of data_ in the region mem.  The 32-bit case reads an
\* int32_t and widens it (sign extension); the 64-bit case reads an int64_t.
get32(mem, data, i, g) ==
    LET lo == Load(mem, data + 2 * i + 1, g)
        hi == Load(mem, data + 2 * i + 2, g)
        sign == IF hi >= LimbBase \div 2 THEN LimbBase - 1 ELSE 0
    IN  << lo, hi, sign, sign >>

get64(mem, data, i, g) ==
    << Load(mem, data + 4 * i + 1, g), Load(mem, data + 4 * i + 2, g),
       Load(mem, data + 4 * i + 3, g), Load(mem, data + 4 * i + 4, g) >>

get(element_type, mem, data, i, g) ==
    IF element_type \in {"S32", "U32"}
    THEN get32(mem, data, i, g)
    ELSE get64(mem, data, i, g)

\* whether get(i) reads inside the allocation
InRegion(element_type, mem, data, i) ==
    data + LimbsOf(element_type) * (i + 1) <= Len(mem)

(***************************************************************************)
(* State.                                                                  *)
(***************************************************************************)
VARIABLES
    threads,              \* the host threads of this behaviour
    devices,              \* the devices of this behaviour
    config_,              \* NcclRaggedAllToAllConfig, fixed at construction
    comm_num_ranks,       \* what comm->NumRanks() returns
    index_data,           \* per thread: the four index operands on its device
    faults,               \* whether external calls may fail in this behaviour
    garbage,              \* the limbs uninitialised memory may hold
    scripted,             \* whether every thread follows its list todo
    destination_buffer,   \* per thread: buffers[0].destination_buffer
    delivered,            \* the (sender, receiver) pairs already transferred
    host_buffer_allocs_,  \* the cache: device -> region id
    regions,              \* every host allocation made: [executor, mem]
    mutex_,               \* the thread holding mutex_, or NoThread
    aborted,              \* the process was terminated (LOG(FATAL), abort)
    pc,                   \* per thread: the statement it is at
    op,                   \* per thread: the call it is in or has returned from
    dev,                  \* per thread: params.executor / stream.parent()
    status,               \* per thread: the status the call returned
    log,                  \* per thread: the external calls of the call
    idx,                  \* per thread: i of LoadOffsetAndSizeOperands
    peer,                 \* per thread: peer of the loop in RunRaggedAllToAll
    num_ranks,            \* per thread: the local num_ranks
    host_buffer_alloc,    \* per thread: the region the lookup returned
    pending,              \* per thread: copies enqueued on the stream
    slices,               \* per thread: send_slice and recv_slice of the peer
    prevCalls,            \* per thread: (op, peer) calls of its last OK run
    todo,                 \* per thread: the calls it still has to make
    accessor,             \* two IntegerOperandData over one logical value
    check,                \* a call of CheckImplementable
    bindings_,            \* DynamicParameterBinding: dimension -> parameter
    first_bound,          \* per dimension: parameter of its first OK Bind
    last_call             \* the last call on DynamicParameterBinding

shared == << threads, devices, config_, comm_num_ranks, index_data, faults,
            garbage, scripted, destination_buffer, delivered, accessor,
            check, bindings_, first_bound,
            last_call >>
binding == << bindings_, first_bound, last_call >>
history == << prevCalls, todo >>
cache == << host_buffer_allocs_, regions >>
locals == << idx, peer, num_ranks, host_buffer_alloc, pending, slices >>
vars == << threads, devices, config_, comm_num_ranks, index_data, faults,
          garbage, scripted, destination_buffer, delivered,
          host_buffer_allocs_, regions, mutex_, aborted, pc, op, dev,
          status, log, idx, peer, num_ranks, host_buffer_alloc, pending,
          slices, prevCalls, todo, accessor, check, bindings_,
          first_bound, last_call >>

(***************************************************************************)
(* Inputs.                                                                 *)
(***************************************************************************)
\* limbs the allocator or a stray read may deliver: memory is uninitialised
GarbageLimbs == {0, LimbBase - 1}

\* the element types of the four index operands (buffers[2] .. buffers[5])
TypeAssignments ==
    {<< ty, ty, ty, ty >> : ty \in ElemTypes}
        \cup {<< "S64", "S32", "U64", "U32" >>, << "S32", "S32", "S32", "S16" >>}

Configs ==
    [num_ragged_rows : 1..MaxRows,
     ragged_row_element_size : 1..MaxRowElems,
     element_type : TypeAssignments]

\* the value of element i of index operand a (0: input_offsets,
\* 1: send_sizes, 2: output_offsets, 3: recv_sizes) in device memory
\* on the device of the thread t
IndexValue(t, a, i) == index_data[t][a + 1][i + 1]

\* index operands filled with a pattern that gives every operand and every
\* row another value
PatternData(rows, sd) ==
    [a \in 1..NumIndexOperands |->
        [i \in 1..rows |-> (sd + (a - 1) + 4 * (i - 1)) % (MaxIdx + 1)]]

\* buffers[a + 2].source_buffer: the limbs of the index operand a
SourceBuffer(t, a) ==
    LET k == LimbsOf(config_.element_type[a + 1])
    IN  [p \in 1..(config_.num_ragged_rows * k) |->
            Enc(IndexValue(t, a, (p - 1) \div k), k)[((p - 1) % k) + 1]]

\* buffers.size() without the pair of the output operand
NumBuffersWithoutOutput == NumIndexOperands + 1

\* buffers.size(): the payload pair, the output pair and the index operands
NumBuffers == NumIndexOperands + 2

NoSlices == [send_off |-> I64(0), send_cnt |-> I64(0),
             recv_off |-> I64(0), recv_cnt |-> I64(0)]

\* the arguments of a call that takes no slice
NoArg == I64(0)

Call(o, p, off, cnt, ok) ==
    [op |-> o, peer |-> p, off |-> off, cnt |-> cnt, ok |-> ok]

EmptyMap == [d \in {} |-> 0]

\* no call of CheckImplementable
NoCheck ==
    [valid |-> << >>, i |-> 0, examined |-> << >>, pc |-> "done",
     status |-> "none"]

\* the result of a read that was not made
NotRead == << >>

\* no call on a DynamicParameterBinding
NoCall == [op |-> "none"]

\* a default-constructed DynamicParameterBinding, no call made on it
NoBinding ==
    /\ bindings_ = EmptyMap
    /\ first_bound = EmptyMap
    /\ last_call = NoCall

\* no IntegerOperandData under comparison
NoAccessor ==
    [narrow_type |-> "S32", wide_type |-> "S64", value |-> << 0, 0 >>,
     i |-> 0, narrow |-> NotRead, wide |-> NotRead]

InitThreads ==
    /\ host_buffer_allocs_ = EmptyMap
    /\ regions = << >>
    /\ mutex_ = NoThread
    /\ aborted = "no"
    /\ pc = [t \in threads |-> "idle"]
    /\ op = [t \in threads |-> "none"]
    /\ dev = [t \in threads |-> CHOOSE d \in devices : TRUE]
    /\ status = [t \in threads |-> "none"]
    /\ log = [t \in threads |-> << >>]
    /\ idx = [t \in threads |-> 0]
    /\ peer = [t \in threads |-> 0]
    /\ num_ranks = [t \in threads |-> 0]
    /\ host_buffer_alloc = [t \in threads |-> 0]
    /\ pending = [t \in threads |-> << >>]
    /\ slices = [t \in threads |-> NoSlices]
    /\ prevCalls = [t \in threads |-> << >>]
    /\ delivered = {}

\* threads that make any calls in any order; every external call may fail
InitFree ==
    /\ faults = TRUE
    /\ garbage = GarbageLimbs
    /\ scripted = FALSE
    /\ todo = [t \in threads |-> << >>]
    /\ destination_buffer = [t \in threads |-> << >>]
    /\ accessor = NoAccessor
    /\ NoBinding
    /\ check = NoCheck

\* one thread driving one device, every configuration and index content
Init ==
    /\ threads = {"t1"}
    /\ devices = {"gpu0"}
    /\ config_ \in Configs
    /\ comm_num_ranks \in 1..MaxRanks
    /\ \E sd \in 0..MaxIdx :
          index_data = [t \in threads |->
                            PatternData(config_.num_ragged_rows, sd)]
    /\ InitFree
    /\ InitThreads

(***************************************************************************)
(* Helpers of the actions.                                                 *)
(***************************************************************************)
\* the call of thread t returns the status st
Return(t, st) ==
    /\ pc' = [pc EXCEPT ![t] = "idle"]
    /\ status' = [status EXCEPT ![t] = st]

Goto(t, label) == pc' = [pc EXCEPT ![t] = label]

Logged(t, call) == log' = [log EXCEPT ![t] = Append(@, call)]

At(t, label) == aborted = "no" /\ pc[t] = label

\* absl hash map emplace: inserts only when the key is absent
Emplace(map, key, value) ==
    IF key \in DOMAIN map
    THEN map
    ELSE [k \in DOMAIN map \cup {key} |-> IF k = key THEN value ELSE map[k]]

\* 4 * config_.num_ragged_rows * sizeof(int64_t), in limbs
AllocLimbs == NumIndexOperands * config_.num_ragged_rows * Int64Limbs

\* host allocations are capped one above what the devices need
MaxRegions == Cardinality(devices) + 1

ResetLocals(t) ==
    /\ idx' = [idx EXCEPT ![t] = 0]
    /\ peer' = [peer EXCEPT ![t] = 0]
    /\ num_ranks' = [num_ranks EXCEPT ![t] = 0]
    /\ host_buffer_alloc' = [host_buffer_alloc EXCEPT ![t] = 0]
    /\ pending' = [pending EXCEPT ![t] = << >>]
    /\ slices' = [slices EXCEPT ![t] = NoSlices]

\* the thread t may make the call on the device d now: any call when the
\* threads are free; otherwise the next call of its list on its own device,
\* where the devices are initialized one after the other in rank order and
\* the runs are concurrent
Scheduled(t, call, d) ==
    scripted => /\ todo[t] # << >>
                /\ Head(todo[t]) = call
                /\ d = RankDevice(Rank(t))
                /\ call = "Initialize"
                      => \A u \in threads :
                            Rank(u) < Rank(t)
                            => /\ "Initialize" \notin
                                    {todo[u][i] : i \in 1..Len(todo[u])}
                               /\ op[u] = "Initialize" => pc[u] = "idle"

(***************************************************************************)
(* NcclRaggedAllToAllStartThunk::Initialize(params)                        *)
(***************************************************************************)
\* a thread calls Initialize with params.executor = d
CallInitialize(t, d) ==
    /\ At(t, "idle")
    /\ Scheduled(t, "Initialize", d)
    /\ todo' = [todo EXCEPT ![t] = IF scripted THEN Tail(@) ELSE @]
    /\ UNCHANGED prevCalls
    /\ pc' = [pc EXCEPT ![t] = "init_base"]
    /\ op' = [op EXCEPT ![t] = "Initialize"]
    /\ dev' = [dev EXCEPT ![t] = d]
    /\ status' = [status EXCEPT ![t] = "none"]
    /\ log' = [log EXCEPT ![t] = << >>]
    /\ ResetLocals(t)
    /\ UNCHANGED << shared, cache, mutex_, aborted >>

\* TF_RETURN_IF_ERROR(NcclCollectiveThunk::Initialize(params))
InitBase(t) ==
    /\ At(t, "init_base")
    /\ \/ Goto(t, "init_lock") /\ UNCHANGED status
       \/ faults /\ Return(t, "error")
    /\ UNCHANGED << shared, cache, mutex_, aborted, op, dev, log, locals,
                    history >>

\* InitLock without mutual exclusion
InitLockNoWait(t) ==
    /\ At(t, "init_lock")
    /\ mutex_' = t
    /\ Goto(t, "init_find")
    /\ UNCHANGED << shared, cache, aborted, op, dev, status, log, locals,
                    history >>

\* absl::MutexLock lock(&mutex_)
InitLock(t) ==
    /\ At(t, "init_lock")
    /\ mutex_ = NoThread
    /\ mutex_' = t
    /\ Goto(t, "init_find")
    /\ UNCHANGED << shared, cache, aborted, op, dev, status, log, locals,
                    history >>

\* host_buffer_allocs_.find(params.executor)
InitFind(t) ==
    /\ At(t, "init_find")
    /\ \/ /\ dev[t] \in DOMAIN host_buffer_allocs_
          /\ status' = [status EXCEPT ![t] = "ok"]
          /\ Goto(t, "init_unlock")
       \/ /\ dev[t] \notin DOMAIN host_buffer_allocs_
          /\ Goto(t, "init_alloc")
          /\ UNCHANGED status
    /\ UNCHANGED << shared, cache, mutex_, aborted, op, dev, log, locals,
                    history >>

\* InitAlloc where a failed allocation leaves an entry without a region
InitAllocKeepsEntry(t) ==
    /\ At(t, "init_alloc")
    /\ faults
    /\ Logged(t, Call("HostMemoryAllocate", 0, NoArg, I64(2 * AllocLimbs),
                      FALSE))
    /\ host_buffer_allocs_' = Emplace(host_buffer_allocs_, dev[t], 0)
    /\ status' = [status EXCEPT ![t] = "error"]
    /\ Goto(t, "init_unlock")
    /\ UNCHANGED << shared, regions, mutex_, aborted, op, dev, locals,
                    history >>

\* TF_ASSIGN_OR_RETURN(allocation, params.executor->HostMemoryAllocate(
\*     4 * config_.num_ragged_rows * sizeof(int64_t))): the memory returned
\* is uninitialised; a failure returns out of Initialize
InitAlloc(t) ==
    /\ At(t, "init_alloc")
    /\ \/ /\ Len(regions) < MaxRegions
          /\ \E fill \in garbage :
                regions' = Append(regions,
                    [executor |-> dev[t],
                     mem |-> [p \in 1..AllocLimbs |-> fill]])
          /\ host_buffer_alloc' =
                [host_buffer_alloc EXCEPT ![t] = Len(regions) + 1]
          /\ Logged(t, Call("HostMemoryAllocate", 0, NoArg,
                            I64(2 * AllocLimbs), TRUE))
          /\ Goto(t, "init_emplace")
          /\ UNCHANGED status
       \/ /\ faults
          /\ Logged(t, Call("HostMemoryAllocate", 0, NoArg,
                            I64(2 * AllocLimbs), FALSE))
          /\ status' = [status EXCEPT ![t] = "error"]
          /\ Goto(t, "init_unlock")
          /\ UNCHANGED << regions, host_buffer_alloc >>
    /\ UNCHANGED << shared, host_buffer_allocs_, mutex_, aborted, op, dev,
                    idx, peer, num_ranks, pending, slices, history >>

\* host_buffer_allocs_.emplace(params.executor, std::move(allocation))
InitEmplace(t) ==
    /\ At(t, "init_emplace")
    /\ host_buffer_allocs_' =
            Emplace(host_buffer_allocs_, dev[t], host_buffer_alloc[t])
    /\ status' = [status EXCEPT ![t] = "ok"]
    /\ Goto(t, "init_unlock")
    /\ UNCHANGED << shared, regions, mutex_, aborted, op, dev, log, locals,
                    history >>

\* the MutexLock goes out of scope and Initialize returns
InitUnlock(t) ==
    /\ At(t, "init_unlock")
    /\ mutex_' = NoThread
    /\ Goto(t, "idle")
    /\ UNCHANGED << shared, cache, aborted, op, dev, status, log, locals,
                    history >>

(***************************************************************************)
(* NcclRaggedAllToAllStartThunk::RunNcclCollective(params, stream, comm)   *)
(***************************************************************************)
\* the (operation, peer) pairs of the Send and Recv calls of a log
PeerCalls(calls) ==
    LET sr == SelectSeq(calls, LAMBDA c : c.op \in {"Send", "Recv"})
    IN  [k \in 1..Len(sr) |-> << sr[k].op, sr[k].peer >>]

\* whether some thread is inside a run on device d
Running(d) ==
    \E t \in threads : op[t] = "Run" /\ pc[t] # "idle" /\ dev[t] = d

\* a thread calls RunNcclCollective with stream.parent() = d; the enclosing
\* program issues no two overlapping runs on one device
CallRun(t, d) ==
    /\ At(t, "idle")
    /\ Scheduled(t, "Run", d)
    /\ todo' = [todo EXCEPT ![t] = IF scripted THEN Tail(@) ELSE @]
    /\ ~Running(d)
    /\ pc' = [pc EXCEPT ![t] = "run_convert"]
    /\ op' = [op EXCEPT ![t] = "Run"]
    /\ dev' = [dev EXCEPT ![t] = d]
    /\ status' = [status EXCEPT ![t] = "none"]
    /\ log' = [log EXCEPT ![t] = << >>]
    /\ prevCalls' = [prevCalls EXCEPT ![t] =
            IF op[t] = "Run" /\ status[t] = "ok" THEN PeerCalls(log[t]) ELSE @]
    /\ ResetLocals(t)
    /\ UNCHANGED << shared, cache, mutex_, aborted >>

\* TF_ASSIGN_OR_RETURN(device_buffers, ConvertToDeviceBuffers(...))
RunConvert(t) ==
    /\ At(t, "run_convert")
    /\ \/ Goto(t, "run_collectives") /\ UNCHANGED status
       \/ faults /\ Return(t, "error")
    /\ UNCHANGED << shared, cache, mutex_, aborted, op, dev, log, locals,
                    history >>

\* TF_ASSIGN_OR_RETURN(collectives, GetGpuCollectives(params))
RunCollectives(t) ==
    /\ At(t, "run_collectives")
    /\ \/ Goto(t, "run_lock") /\ UNCHANGED status
       \/ faults /\ Return(t, "error")
    /\ UNCHANGED << shared, cache, mutex_, aborted, op, dev, log, locals,
                    history >>

\* absl::MutexLock lock(&mutex_) inside the lambda
RunLock(t) ==
    /\ At(t, "run_lock")
    /\ mutex_ = NoThread
    /\ mutex_' = t
    /\ Goto(t, "run_at")
    /\ UNCHANGED << shared, cache, aborted, op, dev, status, log, locals,
                    history >>

\* RunAt that takes the entry out of the map
RunAtTakesEntry(t) ==
    /\ At(t, "run_at")
    /\ dev[t] \in DOMAIN host_buffer_allocs_
    /\ host_buffer_alloc' =
            [host_buffer_alloc EXCEPT ![t] = host_buffer_allocs_[dev[t]]]
    /\ host_buffer_allocs_' =
            [d \in DOMAIN host_buffer_allocs_ \ {dev[t]} |->
                host_buffer_allocs_[d]]
    /\ Goto(t, "run_unlock")
    /\ UNCHANGED << shared, regions, mutex_, aborted, status, op, dev, log,
                    idx, peer, num_ranks, pending, slices, history >>

\* host_buffer_allocs_.at(stream.parent())->opaque().  at() of an absent key
\* throws std::out_of_range where exceptions are enabled (the lock is
\* released by unwinding) and terminates the process where they are not.
RunAt(t) ==
    /\ At(t, "run_at")
    /\ \/ /\ dev[t] \in DOMAIN host_buffer_allocs_
          /\ host_buffer_alloc' =
                [host_buffer_alloc EXCEPT ![t] = host_buffer_allocs_[dev[t]]]
          /\ Goto(t, "run_unlock")
          /\ UNCHANGED << mutex_, aborted, status >>
       \/ /\ dev[t] \notin DOMAIN host_buffer_allocs_
          /\ Return(t, "out_of_range thrown")
          /\ mutex_' = NoThread
          /\ UNCHANGED << aborted, host_buffer_alloc >>
       \/ /\ dev[t] \notin DOMAIN host_buffer_allocs_
          /\ Return(t, "terminated")
          /\ aborted' = "at"
          /\ UNCHANGED << mutex_, host_buffer_alloc >>
    /\ UNCHANGED << shared, cache, op, dev, log, idx, peer, num_ranks,
                    pending, slices, history >>

\* RunUnlock where the lock stays held into RunRaggedAllToAll
RunUnlockKeepsLock(t) ==
    /\ At(t, "run_unlock")
    /\ Goto(t, "register")
    /\ UNCHANGED << shared, cache, mutex_, aborted, op, dev, status, log,
                    locals, history >>

\* the lambda returns: the lock is released before RunRaggedAllToAll
RunUnlock(t) ==
    /\ At(t, "run_unlock")
    /\ mutex_' = NoThread
    /\ Goto(t, "register")
    /\ UNCHANGED << shared, cache, aborted, op, dev, status, log, locals,
                    history >>

(***************************************************************************)
(* RunRaggedAllToAll(collectives, ragged_row_element_size, buffers,        *)
(*                   stream, comm, host_buffer_alloc)                      *)
(***************************************************************************)
\* External where the run goes on after a failed call
ExternalGoesOn(t, name, label) ==
    /\ \E ok \in {TRUE, ~faults} : Logged(t, Call(name, 0, NoArg, NoArg, ok))
    /\ Goto(t, label)
    /\ UNCHANGED status

\* an external call that returns a status: it is logged, then the thread
\* goes on at label, or the error is returned
External(t, name, label) ==
    \/ /\ Logged(t, Call(name, 0, NoArg, NoArg, TRUE))
       /\ Goto(t, label)
       /\ UNCHANGED status
    \/ /\ faults
       /\ Logged(t, Call(name, 0, NoArg, NoArg, FALSE))
       /\ Return(t, "error")

\* TF_RETURN_IF_ERROR(MaybeRegisterBuffers(...))
Register(t) ==
    /\ At(t, "register")
    /\ External(t, "MaybeRegisterBuffers", "num_ranks")
    /\ UNCHANGED << shared, cache, mutex_, aborted, op, dev, locals,
                    history >>

\* LoadLoop with the blocking wait left out
LoadLoopNoWait(i) == IF i < NumBuffers THEN "memcpy" ELSE "group_start"

\* the first and the next statement of the loop over the index operands
LoadLoop(i) == IF i < NumBuffers THEN "memcpy" ELSE "block"

\* TF_ASSIGN_OR_RETURN(int32_t num_ranks, comm->NumRanks()), then
\* LoadOffsetAndSizeOperands starts with i = 2
NumRanks(t) ==
    /\ At(t, "num_ranks")
    /\ \/ /\ Logged(t, Call("NumRanks", 0, NoArg, NoArg, TRUE))
          /\ num_ranks' = [num_ranks EXCEPT ![t] = comm_num_ranks]
          /\ idx' = [idx EXCEPT ![t] = 2]
          /\ Goto(t, LoadLoop(2))
          /\ UNCHANGED status
       \/ /\ faults
          /\ Logged(t, Call("NumRanks", 0, NoArg, NoArg, FALSE))
          /\ Return(t, "error")
          /\ UNCHANGED << num_ranks, idx >>
    /\ UNCHANGED << shared, cache, mutex_, aborted, op, dev, peer,
                    host_buffer_alloc, pending, slices, history >>

\* num_elements = buffers[2].element_count
NumElements == config_.num_ragged_rows

\* HostOffset that advances by 32-bit elements
HostOffsetNarrow(i) == (i - 2) * NumElements * LimbsOf("S32")

\* the limb offset in the region of host_buffer_alloc in iteration i:
\* host_buffer_alloc += num_elements advances an int64_t*
HostOffset(i) == (i - 2) * NumElements * Int64Limbs

\* stream.Memcpy(host_buffer_alloc, buffers[i].source_buffer, size): the
\* copy is enqueued on the stream; a failure returns out of the run
Memcpy(t) ==
    /\ At(t, "memcpy")
    /\ LET i == idx[t]
           src == SourceBuffer(t, i - 2)
           call(ok) == Call("Memcpy", i, I64(2 * HostOffset(i)),
                            I64(2 * Len(src)), ok)
       IN  \/ /\ Logged(t, call(TRUE))
              /\ pending' = [pending EXCEPT ![t] =
                    Append(@, [dst |-> HostOffset(i), data |-> src])]
              /\ idx' = [idx EXCEPT ![t] = i + 1]
              /\ Goto(t, LoadLoop(i + 1))
              /\ UNCHANGED status
           \/ /\ faults
              /\ Logged(t, call(FALSE))
              /\ Return(t, "error")
              /\ UNCHANGED << pending, idx >>
    /\ UNCHANGED << shared, cache, mutex_, aborted, op, dev, peer, num_ranks,
                    host_buffer_alloc, slices, history >>

\* memory after a copy of data to the limbs behind offset dst
Write(mem, dst, data) ==
    [p \in 1..Len(mem) |->
        IF p - dst \in 1..Len(data) THEN data[p - dst] ELSE mem[p]]

RECURSIVE ApplyCopies(_, _)
ApplyCopies(mem, copies) ==
    IF copies = << >>
    THEN mem
    ELSE ApplyCopies(Write(mem, Head(copies).dst, Head(copies).data),
                     Tail(copies))

\* BlockHostUntilDone with the status of the wait ignored
BlockIgnoringFailure(t) ==
    /\ At(t, "block")
    /\ \E ok \in {TRUE, ~faults} :
          Logged(t, Call("BlockHostUntilDone", 0, NoArg, NoArg, ok))
    /\ regions' = [regions EXCEPT ![host_buffer_alloc[t]].mem =
            ApplyCopies(@, pending[t])]
    /\ pending' = [pending EXCEPT ![t] = << >>]
    /\ Goto(t, "group_start")
    /\ UNCHANGED << shared, host_buffer_allocs_, mutex_, aborted, op, dev,
                    status, idx, peer, num_ranks, host_buffer_alloc, slices,
                    history >>

\* stream.BlockHostUntilDone(): when it returns OK the enqueued copies have
\* been performed; its failure is returned as an InternalError
BlockHostUntilDone(t) ==
    /\ At(t, "block")
    /\ \/ /\ Logged(t, Call("BlockHostUntilDone", 0, NoArg, NoArg, TRUE))
          /\ regions' = [regions EXCEPT ![host_buffer_alloc[t]].mem =
                ApplyCopies(@, pending[t])]
          /\ pending' = [pending EXCEPT ![t] = << >>]
          /\ Goto(t, "group_start")
          /\ UNCHANGED status
       \/ /\ faults
          /\ Logged(t, Call("BlockHostUntilDone", 0, NoArg, NoArg, FALSE))
          /\ Return(t, "internal")
          /\ UNCHANGED << regions, pending >>
    /\ UNCHANGED << shared, host_buffer_allocs_, mutex_, aborted, op, dev,
                    idx, peer, num_ranks, host_buffer_alloc, slices,
                    history >>

\* PeerLoop with the bound of the loop off by one
PeerLoopInclusive(t, p) == IF p <= num_ranks[t] THEN "send" ELSE "group_end"

\* PeerLoop with the last peer left out
PeerLoopShort(t, p) == IF p < num_ranks[t] - 1 THEN "send" ELSE "group_end"

\* PeerLoop that ends at the first peer that is sent no rows
PeerLoopStopsAtEmpty(t, p) ==
    IF /\ p < num_ranks[t]
       /\ ~(p < config_.num_ragged_rows /\ IndexValue(t, 1, p) = 0)
    THEN "send"
    ELSE "group_end"

\* the first and the next statement of the loop over the peers
PeerLoop(t, p) == IF p < num_ranks[t] THEN "send" ELSE "group_end"

\* GroupStart left out: the peer loop starts without a group
GroupStartSkipped(t) ==
    /\ At(t, "group_start")
    /\ Goto(t, PeerLoop(t, 0))
    /\ UNCHANGED << shared, cache, mutex_, aborted, op, dev, status, log,
                    locals, history >>

\* TF_RETURN_IF_ERROR(collectives->GroupStart()), then peer = 0
GroupStart(t) ==
    /\ At(t, "group_start")
    /\ External(t, "GroupStart", PeerLoop(t, 0))
    /\ UNCHANGED << shared, cache, mutex_, aborted, op, dev, locals,
                    history >>

\* index_operands[a][p]: the element type of buffers[a + 2], data_ at the
\* a-th sub-region of the staging region
IndexOperand(t, a, p, g) ==
    get(config_.element_type[a + 1], regions[host_buffer_alloc[t]].mem,
        HostOffset(a + 2), p, g)

\* Slices with the offsets of the two directions exchanged
SlicesSwapped(t, p, g) ==
    LET size == config_.ragged_row_element_size
    IN  [send_off |-> Mul64(IndexOperand(t, 2, p, g), size),
         send_cnt |-> Mul64(IndexOperand(t, 1, p, g), size),
         recv_off |-> Mul64(IndexOperand(t, 0, p, g), size),
         recv_cnt |-> Mul64(IndexOperand(t, 3, p, g), size)]

\* Slices without the multiplication by the row size
SlicesInRows(t, p, g) ==
    [send_off |-> IndexOperand(t, 0, p, g),
     send_cnt |-> IndexOperand(t, 1, p, g),
     recv_off |-> IndexOperand(t, 2, p, g),
     recv_cnt |-> IndexOperand(t, 3, p, g)]

\* send_slice and recv_slice of the peer p: offset and count in elements
Slices(t, p, g) ==
    LET input_offsets == IndexOperand(t, 0, p, g)
        send_sizes == IndexOperand(t, 1, p, g)
        output_offsets == IndexOperand(t, 2, p, g)
        recv_sizes == IndexOperand(t, 3, p, g)
        size == config_.ragged_row_element_size
    IN  [send_off |-> Mul64(input_offsets, size),
         send_cnt |-> Mul64(send_sizes, size),
         recv_off |-> Mul64(output_offsets, size),
         recv_cnt |-> Mul64(recv_sizes, size)]

AllSupported ==
    \A a \in 1..NumIndexOperands : IsSupported(config_.element_type[a])

\* whether all four reads of index p stay inside the staging region
ReadsInRegion(t, p) ==
    \A a \in 0..(NumIndexOperands - 1) :
        InRegion(config_.element_type[a + 1],
                 regions[host_buffer_alloc[t]].mem, HostOffset(a + 2), p)

\* the two Slice calls and comm->Send of one iteration.  get() of an
\* unsupported element type is LOG(FATAL); a read outside the allocation
\* yields stray limbs or ends the process.
PeerSend(t) ==
    /\ At(t, "send")
    /\ \/ /\ AllSupported
          /\ \E g \in garbage :
                LET sl == Slices(t, peer[t], g)
                IN  /\ slices' = [slices EXCEPT ![t] = sl]
                    /\ \/ /\ Logged(t, Call("Send", peer[t], sl.send_off,
                                            sl.send_cnt, TRUE))
                          /\ Goto(t, "recv")
                          /\ UNCHANGED status
                       \/ /\ faults
                          /\ Logged(t, Call("Send", peer[t], sl.send_off,
                                            sl.send_cnt, FALSE))
                          /\ Return(t, "error")
          /\ UNCHANGED aborted
       \/ /\ ~AllSupported
          /\ Return(t, "terminated")
          /\ aborted' = "LOG(FATAL)"
          /\ UNCHANGED << slices, log >>
       \/ /\ AllSupported
          /\ ~ReadsInRegion(t, peer[t])
          /\ Return(t, "terminated")
          /\ aborted' = "stray read"
          /\ UNCHANGED << slices, log >>
    /\ UNCHANGED << shared, cache, mutex_, op, dev, idx, peer, num_ranks,
                    host_buffer_alloc, pending, history >>

\* comm->Recv of the iteration, then ++peer
PeerRecv(t) ==
    /\ At(t, "recv")
    /\ LET sl == slices[t]
       IN  \/ /\ Logged(t, Call("Recv", peer[t], sl.recv_off, sl.recv_cnt,
                                TRUE))
              /\ peer' = [peer EXCEPT ![t] = @ + 1]
              /\ Goto(t, PeerLoop(t, peer[t] + 1))
              /\ UNCHANGED status
           \/ /\ faults
              /\ Logged(t, Call("Recv", peer[t], sl.recv_off, sl.recv_cnt,
                                FALSE))
              /\ Return(t, "error")
              /\ UNCHANGED peer
    /\ UNCHANGED << shared, cache, mutex_, aborted, op, dev, idx, num_ranks,
                    host_buffer_alloc, pending, slices, history >>

\* return collectives->GroupEnd()
GroupEnd(t) ==
    /\ At(t, "group_end")
    /\ \/ /\ Logged(t, Call("GroupEnd", 0, NoArg, NoArg, TRUE))
          /\ Return(t, "ok")
       \/ /\ faults
          /\ Logged(t, Call("GroupEnd", 0, NoArg, NoArg, FALSE))
          /\ Return(t, "error")
    /\ UNCHANGED << shared, cache, mutex_, aborted, op, dev, locals,
                    history >>

(***************************************************************************)
(* The specification.                                                      *)
(***************************************************************************)
Next ==
    \/ \E t \in threads, d \in devices : CallInitialize(t, d)
    \/ \E t \in threads, d \in devices : CallRun(t, d)
    \/ \E t \in threads : InitBase(t)
    \/ \E t \in threads : InitLock(t)
    \/ \E t \in threads : InitFind(t)
    \/ \E t \in threads : InitAlloc(t)
    \/ \E t \in threads : InitEmplace(t)
    \/ \E t \in threads : InitUnlock(t)
    \/ \E t \in threads : RunConvert(t)
    \/ \E t \in threads : RunCollectives(t)
    \/ \E t \in threads : RunLock(t)
    \/ \E t \in threads : RunAt(t)
    \/ \E t \in threads : RunUnlock(t)
    \/ \E t \in threads : Register(t)
    \/ \E t \in threads : NumRanks(t)
    \/ \E t \in threads : Memcpy(t)
    \/ \E t \in threads : BlockHostUntilDone(t)
    \/ \E t \in threads : GroupStart(t)
    \/ \E t \in threads : PeerSend(t)
    \/ \E t \in threads : PeerRecv(t)
    \/ \E t \in threads : GroupEnd(t)

Spec == Init /\ [][Next]_vars

\* every thread and device, one configuration: the cache under concurrency
InitCache ==
    /\ threads = Thread
    /\ devices = Device
    /\ config_ \in {c \in Configs : /\ c.num_ragged_rows = 1
                                     /\ c.ragged_row_element_size = 1
                                     /\ c.element_type[1] = "S64"
                                     /\ c.element_type[4] = "S64"}
    /\ comm_num_ranks = 1
    /\ index_data = [t \in threads |->
                        PatternData(config_.num_ragged_rows, 0)]
    /\ InitFree
    /\ InitThreads

SpecCache == InitCache /\ [][Next]_vars

(***************************************************************************)
(* A group of n participants: thread i drives device i as rank i, calls    *)
(* Initialize and then runs once; no external call fails.  The transfers   *)
(* are carried out by a reference communicator.                            *)
(***************************************************************************)
RECURSIVE SumTo(_, _)
\* f[0] + ... + f[k - 1]
SumTo(f, k) == IF k = 0 THEN 0 ELSE f[k - 1] + SumTo(f, k - 1)

\* the number of rows the rank p sends to the rank k
GroupRows(sd, p, k) == (sd + p + 2 * k) % (MaxIdx + 1)

\* the index operands of the rank p: rows are laid out peer after peer in
\* the source and in the destination; with skew, rank 0 expects one row
\* more from the last rank than that rank sends
GroupData(n, sd, skew, p) ==
    LET sent == [k \in 0..(n - 1) |-> GroupRows(sd, p, k)]
        rcvd == [k \in 0..(n - 1) |->
                    GroupRows(sd, k, p)
                        + (IF skew /\ p = 0 /\ k = n - 1 THEN 1 ELSE 0)]
    IN  << [i \in 1..n |-> SumTo(sent, i - 1)],
           [i \in 1..n |-> sent[i - 1]],
           [i \in 1..n |-> SumTo(rcvd, i - 1)],
           [i \in 1..n |-> rcvd[i - 1]] >>

\* the number of elements of buffers[0].source_buffer and of
\* buffers[0].destination_buffer of the thread t: all rows sent, received
SourceElements(t) ==
    LET n == config_.num_ragged_rows
    IN  config_.ragged_row_element_size
            * SumTo([k \in 0..(n - 1) |-> IndexValue(t, 1, k)], n)

DestinationElements(t) ==
    LET n == config_.num_ragged_rows
    IN  config_.ragged_row_element_size
            * SumTo([k \in 0..(n - 1) |-> IndexValue(t, 3, k)], n)

\* buffers[0].source_buffer: every element names its rank and position
SourcePayload(t) ==
    [e \in 1..SourceElements(t) |-> 1000 * (Rank(t) + 1) + e]

Unwritten == -1

InitGroup ==
    /\ \E n \in 1..MaxRanks :
          /\ threads = {RankThread(r) : r \in 0..(n - 1)}
          /\ devices = {RankDevice(r) : r \in 0..(n - 1)}
          /\ comm_num_ranks = n
          /\ config_ \in {c \in Configs :
                            /\ c.num_ragged_rows = n
                            /\ c.ragged_row_element_size \in {1, MaxRowElems}
                            /\ c.element_type = << "S64", "S32", "U64", "U32" >>}
          /\ \E sd \in {1, MaxIdx}, skew \in BOOLEAN :
                index_data = [t \in threads |-> GroupData(n, sd, skew, Rank(t))]
    /\ faults = FALSE
    /\ garbage = {0}
    /\ scripted = TRUE
    /\ todo = [t \in threads |-> << "Initialize", "Run" >>]
    /\ accessor = NoAccessor
    /\ NoBinding
    /\ check = NoCheck
    /\ destination_buffer =
            [t \in threads |-> [e \in 1..DestinationElements(t) |-> Unwritten]]
    /\ InitThreads

\* the value of a 64-bit quantity that is a small natural
ToInt(v) == v[1] + LimbBase * v[2]
IsSmall(v) == v[3] = 0 /\ v[4] = 0 /\ v[2] < LimbBase \div 2

\* the reference communicator carries out the Send of s to r against the
\* Recv of r from s once every participant has ended its group: the elements
\* of the send slice are written to the recv slice
Transfer(s, r) ==
    /\ aborted = "no"
    /\ << s, r >> \notin delivered
    /\ \A t \in threads : op[t] = "Run" /\ pc[t] = "idle" /\ status[t] = "ok"
    /\ \E i \in 1..Len(log[s]), j \in 1..Len(log[r]) :
          LET snd == log[s][i]
              rcv == log[r][j]
          IN  /\ snd.op = "Send" /\ snd.peer = Rank(r)
              /\ rcv.op = "Recv" /\ rcv.peer = Rank(s)
              /\ snd.cnt = rcv.cnt
              /\ \A v \in {snd.off, snd.cnt, rcv.off} : IsSmall(v)
              /\ ToInt(snd.off) + ToInt(snd.cnt) <= SourceElements(s)
              /\ ToInt(rcv.off) + ToInt(rcv.cnt) <= DestinationElements(r)
              /\ destination_buffer' = [destination_buffer EXCEPT ![r] =
                    Write(@, ToInt(rcv.off),
                          SubSeq(SourcePayload(s), ToInt(snd.off) + 1,
                                 ToInt(snd.off) + ToInt(snd.cnt)))]
    /\ delivered' = delivered \cup {<< s, r >>}
    /\ UNCHANGED << binding, threads, devices, config_, comm_num_ranks,
                    index_data,
                    faults, garbage, scripted, accessor, check, cache,
                    mutex_, aborted, pc, op, dev, status, log, locals,
                    history >>

NextGroup ==
    \/ Next
    \/ \E s \in threads, r \in threads : Transfer(s, r)

SpecGroup == InitGroup /\ [][NextGroup]_vars

(***************************************************************************)
(* IntegerOperandData::get on its own: one logical value of a 32-bit type  *)
(* is stored in an array of that type and in an array of a 64-bit type,    *)
(* and both arrays are read at the position of the value.                  *)
(***************************************************************************)
\* the limbs a 32-bit value is made of: the least, the greatest and the
\* limbs on both sides of the sign bit
LimbSamples == {0, 1, LimbBase \div 2 - 1, LimbBase \div 2, LimbBase - 1}

\* whether the 32-bit pattern v of type ty is a negative value
IsNegative(ty, v) == ty = "S32" /\ v[2] >= LimbBase \div 2

\* the int64_t / uint64_t element that holds the value of the 32-bit
\* pattern v of type ty: the conversion keeps the value
Widen(ty, v) ==
    IF IsNegative(ty, v)
    THEN << v[1], v[2], LimbBase - 1, LimbBase - 1 >>
    ELSE << v[1], v[2], 0, 0 >>

\* an array of MaxRows elements, the element elem at position i, 0 elsewhere
ArrayWith(elem, i) ==
    [p \in 1..(MaxRows * Len(elem)) |->
        IF (p - 1) \div Len(elem) = i THEN elem[((p - 1) % Len(elem)) + 1] ELSE 0]

InitDecode ==
    /\ threads = {"t1"}
    /\ devices = {"gpu0"}
    /\ config_ = CHOOSE c \in Configs : TRUE
    /\ comm_num_ranks = 1
    /\ index_data = [t \in threads |-> PatternData(config_.num_ragged_rows, 0)]
    /\ faults = FALSE
    /\ garbage = {0}
    /\ scripted = TRUE
    /\ todo = [t \in threads |-> << >>]
    /\ destination_buffer = [t \in threads |-> << >>]
    /\ check = NoCheck
    /\ NoBinding
    /\ InitThreads
    /\ \E nt \in {"S32", "U32"}, wt \in {"S64", "U64"},
          lo \in LimbSamples, hi \in LimbSamples, i \in 0..(MaxRows - 1) :
          /\ IsNegative(nt, << lo, hi >>) => wt = "S64"
          /\ accessor = [narrow_type |-> nt, wide_type |-> wt,
                         value |-> << lo, hi >>, i |-> i,
                         narrow |-> NotRead, wide |-> NotRead]

\* IntegerOperandData(narrow_type, data).get(i) on the 32-bit array
ReadNarrow ==
    /\ accessor.narrow = NotRead
    /\ accessor' = [accessor EXCEPT !.narrow =
            get(accessor.narrow_type, ArrayWith(accessor.value, accessor.i),
                0, accessor.i, 0)]
    /\ UNCHANGED << binding, threads, devices, config_, comm_num_ranks,
                    index_data,
                    faults, garbage, scripted, destination_buffer, delivered,
                    check, cache, mutex_, aborted, pc, op, dev, status, log,
                    locals, history >>

\* IntegerOperandData(wide_type, data).get(i) on the 64-bit array
ReadWide ==
    /\ accessor.wide = NotRead
    /\ accessor' = [accessor EXCEPT !.wide =
            get(accessor.wide_type,
                ArrayWith(Widen(accessor.narrow_type, accessor.value),
                          accessor.i),
                0, accessor.i, 0)]
    /\ UNCHANGED << binding, threads, devices, config_, comm_num_ranks,
                    index_data,
                    faults, garbage, scripted, destination_buffer, delivered,
                    check, cache, mutex_, aborted, pc, op, dev, status, log,
                    locals, history >>

NextDecode ==
    \/ ReadNarrow
    \/ ReadWide

SpecDecode == InitDecode /\ [][NextDecode]_vars

(***************************************************************************)
(* NcclRaggedAllToAllStartThunk::CheckImplementable(instr, ...)            *)
(***************************************************************************)
\* the thunk at rest: no thread has made a call
InitIdle ==
    /\ threads = {"t1"}
    /\ devices = {"gpu0"}
    /\ config_ = CHOOSE c \in Configs : TRUE
    /\ comm_num_ranks = 1
    /\ index_data = [t \in threads |-> PatternData(config_.num_ragged_rows, 0)]
    /\ faults = FALSE
    /\ garbage = {0}
    /\ scripted = TRUE
    /\ todo = [t \in threads |-> << >>]
    /\ destination_buffer = [t \in threads |-> << >>]
    /\ InitThreads

\* instr->operands(): for every operand, whether IsValidOperand accepts its
\* shape
InitCheck ==
    /\ InitIdle
    /\ accessor = NoAccessor
    /\ NoBinding
    /\ \E valid \in [1..NumBuffers -> BOOLEAN] :
          check = [valid |-> valid, i |-> 0, examined |-> << >>,
                   pc |-> "loop", status |-> "none"]

\* CheckOperand that goes on with the next operand after an invalid one
CheckOperandGoesOn ==
    /\ check.pc = "loop"
    /\ check.i < Len(check.valid)
    /\ check' = [check EXCEPT
            !.examined = Append(@, check.i),
            !.i = @ + 1,
            !.status = IF check.valid[check.i + 1] THEN @ ELSE "invalid_argument"]
    /\ UNCHANGED << binding, threads, devices, config_, comm_num_ranks,
                    index_data,
                    faults, garbage, scripted, destination_buffer, delivered,
                    accessor, cache, mutex_, aborted, pc, op, dev, status,
                    log, locals, history >>

\* one iteration of the loop of the lambda:
\* TF_RETURN_IF_ERROR(IsValidOperand(shape, Thunk::kNcclRaggedAllToAll))
CheckOperand ==
    /\ check.pc = "loop"
    /\ check.i < Len(check.valid)
    /\ check' = IF check.valid[check.i + 1]
                THEN [check EXCEPT !.examined = Append(@, check.i),
                                   !.i = @ + 1]
                ELSE [check EXCEPT !.examined = Append(@, check.i),
                                   !.status = "invalid_argument",
                                   !.pc = "describe"]
    /\ UNCHANGED << binding, threads, devices, config_, comm_num_ranks,
                    index_data,
                    faults, garbage, scripted, destination_buffer, delivered,
                    accessor, cache, mutex_, aborted, pc, op, dev, status,
                    log, locals, history >>

\* the loop is over: return absl::OkStatus(), unless an error was recorded
CheckLoopEnd ==
    /\ check.pc = "loop"
    /\ check.i = Len(check.valid)
    /\ check' = [check EXCEPT
            !.status = IF @ = "none" THEN "ok" ELSE @,
            !.pc = "describe"]
    /\ UNCHANGED << binding, threads, devices, config_, comm_num_ranks,
                    index_data,
                    faults, garbage, scripted, destination_buffer, delivered,
                    accessor, cache, mutex_, aborted, pc, op, dev, status,
                    log, locals, history >>

\* return AddOpDescription<...>(status(), instr, ...): an OK status is
\* returned as it is, an error keeps its code and gets the description of
\* the operation added to its message
AddOpDescription ==
    /\ check.pc = "describe"
    /\ check' = [check EXCEPT !.pc = "done"]
    /\ UNCHANGED << binding, threads, devices, config_, comm_num_ranks,
                    index_data,
                    faults, garbage, scripted, destination_buffer, delivered,
                    accessor, cache, mutex_, aborted, pc, op, dev, status,
                    log, locals, history >>

NextCheck ==
    \/ CheckOperand
    \/ CheckLoopEnd
    \/ AddOpDescription

SpecCheck == InitCheck /\ [][NextCheck]_vars

(***************************************************************************)
(* CheckImplementable on an operation with shapes: the payload has         *)
(* dimensions << rows, row_elements >>, the index operands have            *)
(* index_rows elements; the descriptor is derived from these shapes.       *)
(***************************************************************************)
\* GetNcclRaggedAllToAllConfig(instr): num_ragged_rows is dimension 0 of
\* operand 2, ragged_row_element_size is ElementsIn(shape) / dimension 0
GetNcclRaggedAllToAllConfig(shape, index_rows, types) ==
    [num_ragged_rows |-> index_rows,
     ragged_row_element_size |-> (shape[1] * shape[2]) \div shape[1],
     element_type |-> types]

\* an operation of any shapes, every operand accepted or not by
\* IsValidOperand on its own shape
InitValidate ==
    /\ threads = {"t1"}
    /\ devices = {"gpu0"}
    /\ comm_num_ranks = 1
    /\ \E rows \in 1..MaxRows, row_elements \in 1..MaxRowElems,
          index_rows \in 1..MaxRows, valid \in [1..NumBuffers -> BOOLEAN] :
          /\ config_ = GetNcclRaggedAllToAllConfig(
                            << rows, row_elements >>, index_rows,
                            << "S64", "S64", "S64", "S64" >>)
          /\ check = [valid |-> valid, i |-> 0, examined |-> << >>,
                      pc |-> "loop", status |-> "none",
                      shape |-> << rows, row_elements >>,
                      index_rows |-> index_rows]
    /\ index_data = [t \in threads |-> PatternData(config_.num_ragged_rows, 0)]
    /\ faults = FALSE
    /\ garbage = {0}
    /\ scripted = TRUE
    /\ todo = [t \in threads |-> << >>]
    /\ destination_buffer = [t \in threads |-> << >>]
    /\ accessor = NoAccessor
    /\ NoBinding
    /\ InitThreads

SpecValidate == InitValidate /\ [][NextCheck]_vars

(***************************************************************************)
(* DynamicParameterBinding (xla/hlo/ir/dynamic_parameter_binding.cc): one  *)
(* object, its calls made one after the other.                             *)
(***************************************************************************)
\* the largest bindings_.size() and proto.entries_size() of a behaviour
MaxBindings == 2
MaxEntries == 2

\* DynamicParameter{parameter_num, parameter_index}
DynamicParameter(parameter_num, parameter_index) ==
    [parameter_num |-> parameter_num, parameter_index |-> parameter_index]

\* DynamicDimension{target, target_num, target_index, dimension}
DynamicDimension(target, target_num, target_index, dimension) ==
    [target |-> target, target_num |-> target_num,
     target_index |-> target_index, dimension |-> dimension]

\* the parameters and dimensions of the calls: every field takes two values
Parameters ==
    {DynamicParameter(0, << >>), DynamicParameter(1, << >>),
     DynamicParameter(0, << 1 >>)}

Dimensions ==
    {DynamicDimension("kParam", 0, << >>, 0),
     DynamicDimension("kOutput", 0, << >>, 0),
     DynamicDimension("kParam", 1, << >>, 0),
     DynamicDimension("kParam", 0, << 1 >>, 0),
     DynamicDimension("kParam", 0, << >>, 1)}

\* std::optional: the empty set is std::nullopt
NullOpt == {}
Some(v) == {v}

\* a Bind that replaces the parameter of a dimension already bound
BindOverwrites(b, dynamic_parameter, dynamic_dimension) ==
    [bindings_ |-> [k \in DOMAIN b \cup {dynamic_dimension} |->
                        IF k = dynamic_dimension
                        THEN dynamic_parameter ELSE b[k]],
     status |-> IF dynamic_dimension \in DOMAIN b THEN "internal" ELSE "ok"]

\* Bind on the object with bindings_ = b: emplace does not replace, and
\* TF_RET_CHECK(result.second) is an internal error when nothing was
\* inserted
Bind(b, dynamic_parameter, dynamic_dimension) ==
    [bindings_ |-> Emplace(b, dynamic_dimension, dynamic_parameter),
     status |-> IF dynamic_dimension \in DOMAIN b THEN "internal" ELSE "ok"]

\* GetBinding on the object with bindings_ = b
GetBinding(b, dynamic_dimension) ==
    IF dynamic_dimension \notin DOMAIN b
    THEN NullOpt
    ELSE Some(b[dynamic_dimension])

\* a switch of ToProto that writes KPARAM for every target
ProtoTargetAlwaysParam(target) == "KPARAM"

\* the switch of ToProto on dynamic_dimension.target
ProtoTarget(target) ==
    CASE target = "kParam" -> "KPARAM"
      [] target = "kOutput" -> "KOUTPUT"

\* binding_proto of one iteration of ToProto
BindingProto(dynamic_dimension, dynamic_param) ==
    [dynamic_param_num |-> dynamic_param.parameter_num,
     dynamic_param_index |-> dynamic_param.parameter_index,
     target |-> ProtoTarget(dynamic_dimension.target),
     target_num |-> dynamic_dimension.target_num,
     target_index |-> dynamic_dimension.target_index,
     target_dim_num |-> dynamic_dimension.dimension]

\* the orders in which a loop over the hash map can visit its keys
Orders(keys) ==
    {order \in [1..Cardinality(keys) -> keys] :
        \A i, j \in 1..Cardinality(keys) : order[i] = order[j] => i = j}

\* ToProto on the object with bindings_ = b, its loop visiting the keys in
\* the given order
ToProto(b, order) ==
    [k \in 1..Len(order) |-> BindingProto(order[k], b[order[k]])]

\* the loop of CreateFromProto from entry k on, result holding the
\* bindings made so far; the value of the StatusOr is absent on an error
RECURSIVE CreateFromEntries(_, _, _)
CreateFromEntries(proto, k, result) ==
    IF k > Len(proto)
    THEN [status |-> "ok", value |-> Some(result)]
    ELSE IF proto[k].target \notin {"KPARAM", "KOUTPUT"}
    THEN [status |-> "internal", value |-> NullOpt]
    ELSE LET target == IF proto[k].target = "KOUTPUT"
                       THEN "kOutput" ELSE "kParam"
             bound == Bind(result,
                           DynamicParameter(proto[k].dynamic_param_num,
                                            proto[k].dynamic_param_index),
                           DynamicDimension(target, proto[k].target_num,
                                            proto[k].target_index,
                                            proto[k].target_dim_num))
         IN  IF bound.status # "ok"
             THEN [status |-> bound.status, value |-> NullOpt]
             ELSE CreateFromEntries(proto, k + 1, bound.bindings_)

CreateFromProto(proto) == CreateFromEntries(proto, 1, EmptyMap)

\* entries a proto read from elsewhere can hold: of two dimensions and two
\* parameters, and one whose target is neither KPARAM nor KOUTPUT
Entries ==
    {BindingProto(d, p) :
        d \in {DynamicDimension("kParam", 0, << >>, 0),
               DynamicDimension("kOutput", 0, << >>, 0)},
        p \in {DynamicParameter(0, << >>), DynamicParameter(1, << >>)}}
      \cup {[BindingProto(DynamicDimension("kParam", 0, << >>, 0),
                          DynamicParameter(0, << >>))
                EXCEPT !.target = "INVALID"]}

Protos ==
    UNION {[1..n -> Entries] : n \in 0..MaxEntries}

InitBinding ==
    /\ InitIdle
    /\ accessor = NoAccessor
    /\ check = NoCheck
    /\ NoBinding

\* binding.Bind(dynamic_parameter, dynamic_dimension)
CallBind(dynamic_parameter, dynamic_dimension) ==
    /\ \/ dynamic_dimension \in DOMAIN bindings_
       \/ Cardinality(DOMAIN bindings_) < MaxBindings
    /\ LET bound == Bind(bindings_, dynamic_parameter, dynamic_dimension)
       IN  /\ bindings_' = bound.bindings_
           /\ first_bound' = IF bound.status = "ok"
                             THEN Emplace(first_bound, dynamic_dimension,
                                          dynamic_parameter)
                             ELSE first_bound
           /\ last_call' = [op |-> "Bind",
                            dynamic_parameter |-> dynamic_parameter,
                            dynamic_dimension |-> dynamic_dimension,
                            before |-> bindings_,
                            status |-> bound.status]
    /\ UNCHANGED << threads, devices, config_, comm_num_ranks, index_data,
                    faults, garbage, scripted, destination_buffer, delivered,
                    accessor, check, cache, mutex_, aborted, pc, op, dev,
                    status, log, locals, history >>

\* binding.GetBinding(dynamic_dimension)
CallGetBinding(dynamic_dimension) ==
    /\ last_call' = [op |-> "GetBinding",
                     dynamic_dimension |-> dynamic_dimension,
                     value |-> GetBinding(bindings_, dynamic_dimension)]
    /\ UNCHANGED << bindings_, first_bound, threads, devices, config_,
                    comm_num_ranks, index_data, faults, garbage, scripted,
                    destination_buffer, delivered, accessor, check, cache,
                    mutex_, aborted, pc, op, dev, status, log, locals,
                    history >>

\* binding.ToProto()
CallToProto ==
    /\ \E order \in Orders(DOMAIN bindings_) :
          last_call' = [op |-> "ToProto", value |-> ToProto(bindings_, order)]
    /\ UNCHANGED << bindings_, first_bound, threads, devices, config_,
                    comm_num_ranks, index_data, faults, garbage, scripted,
                    destination_buffer, delivered, accessor, check, cache,
                    mutex_, aborted, pc, op, dev, status, log, locals,
                    history >>

\* DynamicParameterBinding::CreateFromProto(proto), proto being what the
\* last ToProto returned or a proto read from elsewhere.  The function is
\* static and reads no object: the protos read from elsewhere are tried
\* while bindings_ is empty only.
CallCreateFromProto ==
    /\ \E proto \in (IF bindings_ = EmptyMap THEN Protos ELSE {})
                      \cup (IF last_call.op = "ToProto"
                            THEN {last_call.value} ELSE {}) :
          LET created == CreateFromProto(proto)
          IN  last_call' = [op |-> "CreateFromProto",
                            proto |-> proto,
                            of_binding |-> /\ last_call.op = "ToProto"
                                           /\ proto = last_call.value,
                            status |-> created.status,
                            value |-> created.value]
    /\ UNCHANGED << bindings_, first_bound, threads, devices, config_,
                    comm_num_ranks, index_data, faults, garbage, scripted,
                    destination_buffer, delivered, accessor, check, cache,
                    mutex_, aborted, pc, op, dev, status, log, locals,
                    history >>

NextBinding ==
    \/ \E p \in Parameters, d \in Dimensions : CallBind(p, d)
    \/ \E d \in Dimensions : CallGetBinding(d)
    \/ CallToProto
    \/ CallCreateFromProto

SpecBinding == InitBinding /\ [][NextBinding]_vars

(***************************************************************************)
(* Properties of one invocation of RunRaggedAllToAll.                      *)
(***************************************************************************)
TransferOps == {"GroupStart", "Send", "Recv"}

\* thread t has returned from a call of RunNcclCollective
Returned(t) ==
    op[t] = "Run" /\ pc[t] = "idle" /\ status[t] \notin {"none", "terminated"}

\* before position k of calls, every index operand was copied and then the
\* blocking wait returned OK
StagedBefore(calls, k) ==
    \E j \in 1..(k - 1) :
        /\ calls[j].op = "BlockHostUntilDone"
        /\ calls[j].ok
        /\ \A i \in 2..(NumBuffers - 1) :
              \E m \in 1..(j - 1) :
                  calls[m].op = "Memcpy" /\ calls[m].peer = i /\ calls[m].ok

\* C1: in every invocation no GroupStart, Send or Recv is issued, and no
\* slice is computed, before all index copies were enqueued and the blocking
\* wait on the stream returned successfully.
C1_WaitBeforeTransfer ==
    \A t \in threads :
        /\ \A k \in 1..Len(log[t]) :
              log[t][k].op \in TransferOps => StagedBefore(log[t], k)
        /\ pc[t] \in {"group_start", "send", "recv", "group_end"}
              => StagedBefore(log[t], Len(log[t]) + 1)

C1_Witness ==
    \E t \in threads : \E k \in 1..Len(log[t]) :
        log[t][k].op = "Recv" /\ log[t][k].ok /\ log[t][k].peer = 1

\* C2: when the blocking wait of the index staging fails, the invocation
\* returns an error and has issued no GroupStart, Send or Recv.
C2_WaitFailureStopsRun ==
    \A t \in threads :
        (\E k \in 1..Len(log[t]) :
            log[t][k].op = "BlockHostUntilDone" /\ ~log[t][k].ok)
        => /\ pc[t] = "idle"
           /\ status[t] = "internal"
           /\ \A k \in 1..Len(log[t]) : log[t][k].op \notin TransferOps

C2_Witness ==
    \E t \in threads :
        /\ Returned(t)
        /\ Len(log[t]) > 0
        /\ log[t][Len(log[t])].op = "BlockHostUntilDone"
        /\ ~log[t][Len(log[t])].ok

\* Send 0, Recv 0, Send 1, Recv 1, ..., Send n-1, Recv n-1
ExpectedPeerCalls(n) ==
    [k \in 1..(2 * n) |->
        << IF k % 2 = 1 THEN "Send" ELSE "Recv", (k - 1) \div 2 >>]

IsPrefix(a, b) == Len(a) <= Len(b) /\ a = SubSeq(b, 1, Len(a))

\* C3: the Send and Recv calls of an invocation are issued for the peers
\* 0, 1, ..., N-1 in ascending order, each Recv right after the Send of the
\* same peer; a run that succeeds issues all of them, and two successful
\* runs issue the same sequence of (operation, peer) calls.
C3_AscendingPeerOrder ==
    \A t \in threads :
        /\ IsPrefix(PeerCalls(log[t]), ExpectedPeerCalls(comm_num_ranks))
        /\ \A k \in 1..Len(log[t]) :
              log[t][k].op = "Recv"
              => /\ k > 1
                 /\ log[t][k - 1].op = "Send"
                 /\ log[t][k - 1].ok
                 /\ log[t][k - 1].peer = log[t][k].peer
        /\ (Returned(t) /\ status[t] = "ok")
              => /\ PeerCalls(log[t]) = ExpectedPeerCalls(comm_num_ranks)
                 /\ prevCalls[t] # << >> => PeerCalls(log[t]) = prevCalls[t]

C3_Witness ==
    \E t \in threads :
        /\ Returned(t)
        /\ status[t] = "ok"
        /\ prevCalls[t] # << >>
        /\ comm_num_ranks = MaxRanks

\* C4: for every peer that has an entry in the index arrays, the Send
\* covers the payload source elements from input_offsets[peer] * row size,
\* send_sizes[peer] * row size of them, and the Recv the payload destination
\* elements from output_offsets[peer] * row size, recv_sizes[peer] * row
\* size of them.
C4_SliceGeometry ==
    \A t \in threads : \A k \in 1..Len(log[t]) :
        LET c == log[t][k]
            size == config_.ragged_row_element_size
        IN  c.peer < config_.num_ragged_rows
            => /\ c.op = "Send"
                  => /\ c.off = I64(IndexValue(t, 0, c.peer) * size)
                     /\ c.cnt = I64(IndexValue(t, 1, c.peer) * size)
               /\ c.op = "Recv"
                  => /\ c.off = I64(IndexValue(t, 2, c.peer) * size)
                     /\ c.cnt = I64(IndexValue(t, 3, c.peer) * size)

C4_Witness ==
    \E t \in threads :
        /\ Returned(t)
        /\ status[t] = "ok"
        /\ config_.ragged_row_element_size = MaxRowElems
        /\ config_.num_ragged_rows >= 2
        /\ \E k \in 1..Len(log[t]) :
              /\ log[t][k].op = "Recv"
              /\ log[t][k].peer = 1
              /\ log[t][k].off # I64(0)
              /\ log[t][k].cnt # I64(0)
        /\ \E k \in 1..Len(log[t]) :
              /\ log[t][k].op = "Send"
              /\ log[t][k].peer = 1
              /\ log[t][k].off # I64(0)
              /\ log[t][k].cnt # I64(0)

Count(calls, name) ==
    Cardinality({k \in 1..Len(calls) : calls[k].op = name /\ calls[k].ok})

\* C5: in every invocation that returns, also when a Send or a Recv of the
\* peer loop returned an error, every GroupStart is matched by a GroupEnd.
C5_GroupBalanced ==
    \A t \in threads :
        Returned(t)
        => Count(log[t], "GroupStart")
              = Cardinality({k \in 1..Len(log[t]) : log[t][k].op = "GroupEnd"})

\* C9: a run for a device that has no cache entry returns an internal error
\* status: the process goes on and the run has issued no copy, Send or Recv.
C9_UninitializedRunIsError ==
    [][\A t \in threads :
          (pc[t] = "run_at" /\ dev[t] \notin DOMAIN host_buffer_allocs_
              /\ pc'[t] # "run_at")
          => /\ status'[t] = "internal"
             /\ aborted' = "no"
             /\ \A k \in 1..Len(log'[t]) :
                   log'[t][k].op \notin {"Memcpy", "Send", "Recv"}]_vars

\* C10: reading an index value whose element type is neither a 32-bit nor a
\* 64-bit integer makes the run return an internal error; the process is
\* not terminated.
C10_UnsupportedTypeIsError ==
    [][\A t \in threads :
          (pc[t] = "send" /\ ~AllSupported /\ pc'[t] # "send")
          => /\ status'[t] = "internal"
             /\ aborted' = "no"]_vars

(***************************************************************************)
(* Properties of a group of participants (SpecGroup).                      *)
(***************************************************************************)
\* the sizes agree: what p sends to k is what k expects from p
ConsistentSizes ==
    \A p \in threads, k \in threads :
        IndexValue(p, 1, Rank(k)) = IndexValue(k, 3, Rank(p))

AllRunsOk == \A t \in threads : Returned(t) /\ status[t] = "ok"

\* C6: with mutually consistent sizes, after the reference communicator has
\* carried out the transfer of k to p, the recv slice of p for the peer k
\* (from output_offsets[k] * row size, recv_sizes[k] * row size elements)
\* holds the elements of the send slice of k for the peer p (from
\* input_offsets[p] * row size); and every pair gets transferred.
C6_ExchangeRoundTrip ==
    ConsistentSizes
    => /\ \A pair \in delivered :
             LET k == pair[1]
                 p == pair[2]
                 size == config_.ragged_row_element_size
                 ro == IndexValue(p, 2, Rank(k)) * size
                 n == IndexValue(p, 3, Rank(k)) * size
                 so == IndexValue(k, 0, Rank(p)) * size
             IN  SubSeq(destination_buffer[p], ro + 1, ro + n)
                    = SubSeq(SourcePayload(k), so + 1, so + n)
       /\ AllRunsOk
             => \A k \in threads, p \in threads :
                    << k, p >> \in delivered \/ ENABLED Transfer(k, p)

C6_Witness ==
    /\ ConsistentSizes
    /\ Cardinality(threads) = MaxRanks
    /\ delivered = threads \X threads
    /\ config_.ragged_row_element_size = MaxRowElems
    /\ \E k \in threads, p \in threads :
          k # p /\ IndexValue(p, 3, Rank(k)) > 0 /\ IndexValue(p, 2, Rank(k)) > 0

\* C7: when all N participants have run to completion, participant p has
\* issued exactly one Send to every k in 0..N-1 (k = p included) and
\* participant k exactly one Recv from p, and no Send or Recv names a peer
\* outside the group: Sends and Recvs match one to one.
C7_SendRecvPairing ==
    AllRunsOk
    => /\ \A p \in threads, k \in threads :
             /\ Cardinality({i \in 1..Len(log[p]) :
                    log[p][i].op = "Send" /\ log[p][i].peer = Rank(k)}) = 1
             /\ Cardinality({j \in 1..Len(log[k]) :
                    log[k][j].op = "Recv" /\ log[k][j].peer = Rank(p)}) = 1
       /\ \A p \in threads : \A i \in 1..Len(log[p]) :
             log[p][i].op \in {"Send", "Recv"}
             => log[p][i].ok /\ log[p][i].peer \in 0..(Cardinality(threads) - 1)

C7_Witness ==
    /\ AllRunsOk
    /\ Cardinality(threads) = MaxRanks
    /\ delivered = {}

(***************************************************************************)
(* Properties of the cache under concurrent calls (SpecCache).             *)
(***************************************************************************)
\* the host allocations made for the device d
Allocations(d) == {r \in 1..Len(regions) : regions[r].executor = d}

\* C8: under every interleaving of Initialize calls the host staging
\* allocation is made at most once per device, and exactly once for a device
\* that has a cache entry; an Initialize that finds the entry allocates
\* nothing; different devices have different regions.
C8_AllocatedOncePerDevice ==
    /\ \A d \in devices :
          /\ Cardinality(Allocations(d)) <= 1
          /\ d \in DOMAIN host_buffer_allocs_
                => Allocations(d) = {host_buffer_allocs_[d]}
    /\ \A d1 \in DOMAIN host_buffer_allocs_, d2 \in DOMAIN host_buffer_allocs_ :
          d1 # d2 => host_buffer_allocs_[d1] # host_buffer_allocs_[d2]
    /\ \A t \in threads :
          /\ (op[t] = "Initialize" /\ pc[t] = "init_alloc")
                => Allocations(dev[t]) = {}
          /\ (op[t] = "Initialize" /\ pc[t] = "idle" /\ status[t] = "ok")
                => dev[t] \in DOMAIN host_buffer_allocs_

C8_Witness ==
    /\ DOMAIN host_buffer_allocs_ = Device
    /\ \E t1 \in threads, t2 \in threads :
          /\ t1 # t2
          /\ dev[t1] = dev[t2]
          /\ op[t1] = "Initialize" /\ pc[t1] = "idle" /\ status[t1] = "ok"
          /\ op[t2] = "Initialize" /\ pc[t2] = "idle" /\ status[t2] = "ok"
          /\ log[t1] # << >>
          /\ log[t2] = << >>

\* the statements of RunRaggedAllToAll
TransferLabels ==
    {"register", "num_ranks", "memcpy", "block", "group_start", "send",
     "recv", "group_end"}

\* C11: when HostMemoryAllocate fails, Initialize returns the error and the
\* cache is left as it was, so the device has no entry and the entries of the
\* other devices are unchanged; an Initialize that finds no entry attempts
\* the allocation (again); an entry appears only by an Initialize that
\* succeeds, and a run is inside the transfer only on a device with an entry.
C11_AllocFailureLeavesNoEntry ==
    [][\A t \in threads :
          /\ (pc[t] = "init_alloc" /\ pc'[t] = "init_unlock")
                => /\ status'[t] = "error"
                   /\ host_buffer_allocs_' = host_buffer_allocs_
                   /\ regions' = regions
                   /\ dev[t] \notin DOMAIN host_buffer_allocs_'
          /\ (pc[t] = "init_unlock" /\ pc'[t] = "idle")
                => /\ status'[t] = status[t]
                   /\ status[t] = "error"
                         => dev[t] \notin DOMAIN host_buffer_allocs_'
          /\ (pc[t] = "init_find" /\ pc'[t] # "init_find"
                 /\ dev[t] \notin DOMAIN host_buffer_allocs_)
                => pc'[t] = "init_alloc"
          /\ (dev[t] \notin DOMAIN host_buffer_allocs_
                 /\ dev[t] \in DOMAIN host_buffer_allocs_')
                => \E u \in threads :
                      /\ op[u] = "Initialize"
                      /\ dev[u] = dev[t]
                      /\ pc[u] = "init_emplace"
                      /\ status'[u] = "ok"
          /\ (op'[t] = "Run" /\ pc'[t] \in TransferLabels)
                => dev'[t] \in DOMAIN host_buffer_allocs_']_vars

C11_Witness ==
    \E t1 \in threads, t2 \in threads :
        /\ dev[t1] = dev[t2]
        /\ op[t1] = "Initialize" /\ pc[t1] = "idle" /\ status[t1] = "error"
        /\ \E k \in 1..Len(log[t1]) :
              log[t1][k].op = "HostMemoryAllocate" /\ ~log[t1][k].ok
        /\ op[t2] = "Run" /\ pc[t2] = "group_start"
        /\ \E d \in DOMAIN host_buffer_allocs_ : d # dev[t1]

\* the names of the external calls of a complete invocation with n ranks
ExpectedCalls(n) ==
    << "MaybeRegisterBuffers", "NumRanks" >>
        \o [i \in 1..NumIndexOperands |-> "Memcpy"]
        \o << "BlockHostUntilDone", "GroupStart" >>
        \o [k \in 1..(2 * n) |-> IF k % 2 = 1 THEN "Send" ELSE "Recv"]
        \o << "GroupEnd" >>

CallNames(calls) == [k \in 1..Len(calls) |-> calls[k].op]

\* C12: the external calls of an invocation are made in the order
\* registration, NumRanks, the four copies and the wait, GroupStart, the
\* Send and Recv of every peer, GroupEnd; a call that fails is the last call
\* of the invocation, which then returns an error; the invocation returns OK
\* only after all of these calls succeeded.
C12_FirstFailureEndsRun ==
    \A t \in threads :
        op[t] = "Run"
        => /\ IsPrefix(CallNames(log[t]), ExpectedCalls(comm_num_ranks))
           /\ \A k \in 1..Len(log[t]) :
                 ~log[t][k].ok
                 => /\ k = Len(log[t])
                    /\ pc[t] = "idle"
                    /\ status[t] \in {"error", "internal"}
           /\ (pc[t] = "idle" /\ status[t] = "ok")
                 => /\ CallNames(log[t]) = ExpectedCalls(comm_num_ranks)
                    /\ \A k \in 1..Len(log[t]) : log[t][k].ok

C12_Witness ==
    \E t \in threads :
        /\ Returned(t)
        /\ status[t] = "error"
        /\ Len(log[t]) = Len(ExpectedCalls(MaxRanks)) - 1
        /\ log[t][Len(log[t])].op = "Recv"
        /\ ~log[t][Len(log[t])].ok

\* the positions of the OK calls named name for the peer p in calls
CallsFor(calls, name, p) ==
    {k \in 1..Len(calls) :
        calls[k].op = name /\ calls[k].peer = p /\ calls[k].ok}

\* C13: a successful invocation with N ranks has issued exactly N Send and
\* N Recv calls, one of each per peer 0..N-1, whatever the sizes are: the
\* Send or Recv of a peer whose size entry is 0 is issued with count 0, and
\* every Send and Recv of a peer with an entry has the count of its own entry.
C13_ZeroLengthStillIssued ==
    \A t \in threads :
        (Returned(t) /\ status[t] = "ok")
        => /\ Count(log[t], "Send") = comm_num_ranks
           /\ Count(log[t], "Recv") = comm_num_ranks
           /\ \A p \in 0..(comm_num_ranks - 1) :
                 /\ Cardinality(CallsFor(log[t], "Send", p)) = 1
                 /\ Cardinality(CallsFor(log[t], "Recv", p)) = 1
                 /\ p < config_.num_ragged_rows
                       => /\ \A k \in CallsFor(log[t], "Send", p) :
                                log[t][k].cnt
                                    = I64(IndexValue(t, 1, p)
                                            * config_.ragged_row_element_size)
                          /\ \A k \in CallsFor(log[t], "Recv", p) :
                                log[t][k].cnt
                                    = I64(IndexValue(t, 3, p)
                                            * config_.ragged_row_element_size)

C13_Witness ==
    \E t \in threads :
        /\ Returned(t)
        /\ status[t] = "ok"
        /\ comm_num_ranks = MaxRanks
        /\ config_.num_ragged_rows >= MaxRanks
        /\ \E p \in 0..(comm_num_ranks - 2) :
              /\ IndexValue(t, 1, p) = 0
              /\ \E k \in CallsFor(log[t], "Send", p) : log[t][k].cnt = I64(0)
              /\ \E k \in CallsFor(log[t], "Recv", p) : log[t][k].cnt # I64(0)
              /\ \E k \in CallsFor(log[t], "Send", p + 1) :
                    log[t][k].cnt # I64(0)

(***************************************************************************)
(* Properties of IntegerOperandData::get (SpecDecode).                     *)
(***************************************************************************)
\* C14: a value of a 32-bit type, signed or unsigned, unsigned values of
\* 2^31 and above included, is read from the 32-bit array as the same 64-bit
\* value as it is read from a 64-bit array that holds it.
C14_NarrowWideAgree ==
    (accessor.narrow # NotRead /\ accessor.wide # NotRead)
    => accessor.narrow = accessor.wide

(***************************************************************************)
(* Properties of CheckImplementable (SpecCheck).                           *)
(***************************************************************************)
\* C15: the operands are examined in their order; the first operand that is
\* not valid is the last one examined and the call returns an error for it;
\* the call returns OK only when every operand was examined and is valid.
C15_CheckFailsFast ==
    /\ check.examined = [k \in 1..Len(check.examined) |-> k - 1]
    /\ \A k \in 1..(Len(check.examined) - 1) :
          check.valid[check.examined[k] + 1]
    /\ (check.pc = "done" /\ check.status # "none")
          => /\ check.status = "ok"
                <=> \A k \in 1..Len(check.valid) : check.valid[k]
             /\ check.status = "ok"
                => Len(check.examined) = Len(check.valid)
             /\ check.status # "ok"
                => ~check.valid[check.examined[Len(check.examined)] + 1]

C15_Witness ==
    /\ check.pc = "done"
    /\ check.status = "invalid_argument"
    /\ check.examined = << 0, 1 >>
    /\ \E k \in 3..Len(check.valid) : ~check.valid[k]

\* the statements a thread executes with mutex_ held
LockedLabels ==
    {"init_find", "init_alloc", "init_emplace", "init_unlock", "run_at",
     "run_unlock"}

\* C16: no thread holds mutex_ while it is in RunRaggedAllToAll (the copies,
\* the blocking wait, GroupStart, the peer loop, GroupEnd): the holder of the
\* lock is, while the process lives, inside the map access of Initialize or
\* of the lookup, so a thread that waits for the lock while the others are
\* in a transfer or idle can take it.
C16_LockNotHeldInTransfer ==
    /\ \A t \in threads : pc[t] \in TransferLabels => mutex_ # t
    /\ (aborted = "no" /\ mutex_ # NoThread) => pc[mutex_] \in LockedLabels
    /\ \A u \in threads :
          (/\ aborted = "no"
           /\ pc[u] = "init_lock"
           /\ \A t \in threads \ {u} : pc[t] \in TransferLabels \cup {"idle"})
          => ENABLED InitLock(u)

C16_Witness ==
    \E t \in threads, u \in threads :
        /\ pc[t] = "block"
        /\ dev[u] # dev[t]
        /\ mutex_ = u
        /\ pc[u] = "init_alloc"

\* C17: every Send and Recv of an invocation is issued after its GroupStart
\* succeeded and before its GroupEnd, and GroupEnd is issued only after the
\* Send and the Recv of all N peers were enqueued.
C17_TransfersInsideGroup ==
    \A t \in threads : \A k \in 1..Len(log[t]) :
        /\ log[t][k].op \in {"Send", "Recv"}
              => /\ \E j \in 1..(k - 1) :
                       log[t][j].op = "GroupStart" /\ log[t][j].ok
                 /\ \A j \in 1..(k - 1) : log[t][j].op # "GroupEnd"
        /\ log[t][k].op = "GroupEnd"
              => /\ k = Len(log[t])
                 /\ PeerCalls(SubSeq(log[t], 1, k - 1))
                        = ExpectedPeerCalls(comm_num_ranks)
                 /\ \A j \in 1..(k - 1) : log[t][j].ok

C17_Witness ==
    \E t \in threads :
        /\ comm_num_ranks = MaxRanks
        /\ Len(log[t]) = Len(ExpectedCalls(MaxRanks))
        /\ log[t][Len(log[t])].op = "GroupEnd"
        /\ ~log[t][Len(log[t])].ok

\* the bytes written by the copies c and d have no byte in common
Disjoint(c, d) ==
    \/ ToInt(c.cnt) = 0
    \/ ToInt(d.cnt) = 0
    \/ ToInt(c.off) + ToInt(c.cnt) <= ToInt(d.off)
    \/ ToInt(d.off) + ToInt(d.cnt) <= ToInt(c.off)

\* C18: the copy of the index array a (0..3) of a run writes at most R * 8
\* bytes from byte offset a * R * 8 of the staging region of the device,
\* which has 4 * R * 8 bytes: the four sub-regions follow one another
\* without a gap, no two copies overlap and every copy stays inside the
\* region.
C18_StagingLayout ==
    \A t \in threads :
        op[t] = "Run"
        => \A k \in 1..Len(log[t]) :
              log[t][k].op = "Memcpy"
              => LET c == log[t][k]
                     a == c.peer - 2
                     R == config_.num_ragged_rows
                     allocated ==
                         2 * Len(regions[host_buffer_alloc[t]].mem)
                 IN  /\ a \in 0..(NumIndexOperands - 1)
                     /\ IsSmall(c.off) /\ IsSmall(c.cnt)
                     /\ allocated = 4 * R * 8
                     /\ ToInt(c.off) = a * R * 8
                     /\ ToInt(c.cnt) <= R * 8
                     /\ ToInt(c.off) + ToInt(c.cnt) <= allocated
                     /\ \A j \in 1..Len(log[t]) :
                           (j # k /\ log[t][j].op = "Memcpy")
                           => Disjoint(log[t][j], c)

C18_Witness ==
    \E t \in threads :
        /\ Returned(t)
        /\ status[t] = "ok"
        /\ config_.num_ragged_rows = MaxRows
        /\ config_.element_type = << "S64", "S32", "U64", "U32" >>
        /\ Count(log[t], "Memcpy") = NumIndexOperands

\* C19: no step of an Initialize or of a run removes a cache entry, binds a
\* device to another region or changes the size or the device of a region;
\* a run that is inside the transfer uses the region of the entry of its
\* device, so every run on a device gets the same region and the device
\* stays initialized after a run.
C19_EntryIsStable ==
    [][/\ \A d \in DOMAIN host_buffer_allocs_ :
             /\ d \in DOMAIN host_buffer_allocs_'
             /\ host_buffer_allocs_'[d] = host_buffer_allocs_[d]
             /\ Len(regions'[host_buffer_allocs_[d]].mem)
                   = Len(regions[host_buffer_allocs_[d]].mem)
             /\ regions'[host_buffer_allocs_[d]].executor = d
       /\ \A t \in threads :
             (op'[t] = "Run" /\ pc'[t] \in TransferLabels)
             => /\ dev'[t] \in DOMAIN host_buffer_allocs_'
                /\ host_buffer_alloc'[t] = host_buffer_allocs_'[dev'[t]]]_vars

C19_Witness ==
    \E t \in threads, u \in threads :
        /\ Returned(t) /\ status[t] = "ok" /\ prevCalls[t] # << >>
        /\ Returned(u) /\ status[u] = "error" /\ dev[u] = dev[t]
        /\ Cardinality(Allocations(dev[t])) = 1
        /\ Len(regions) = Cardinality(devices)

\* element p of the index array bound at position pos of the buffers
IndexBuffer(t, pos, p) == IndexValue(t, pos - 2, p)

\* the binding positions of the copies of a call log, in the order made
CopiedPositions(calls) ==
    LET copies == SelectSeq(calls, LAMBDA c : c.op = "Memcpy")
    IN  [k \in 1..Len(copies) |-> copies[k].peer]

\* whether the Send and Recv calls of the thread t have the offsets and
\* counts of the index arrays bound at io, ss, oo, rs
SlicesFrom(t, io, ss, oo, rs) ==
    \A k \in 1..Len(log[t]) :
        LET c == log[t][k]
            size == config_.ragged_row_element_size
        IN  c.peer < config_.num_ragged_rows
            => /\ c.op = "Send"
                  => /\ c.off = I64(IndexBuffer(t, io, c.peer) * size)
                     /\ c.cnt = I64(IndexBuffer(t, ss, c.peer) * size)
               /\ c.op = "Recv"
                  => /\ c.off = I64(IndexBuffer(t, oo, c.peer) * size)
                     /\ c.cnt = I64(IndexBuffer(t, rs, c.peer) * size)

\* C20 as stated: the index arrays input_offsets, send_sizes, output_offsets
\* and recv_sizes are staged from the binding positions 1, 2, 3 and 4.
C20_PositionsOneToFour ==
    \A t \in threads :
        op[t] = "Run"
        => IsPrefix(CopiedPositions(log[t]),
                    [a \in 1..NumIndexOperands |-> a])

\* C20, amended: an invocation stages exactly four index arrays, from the
\* binding positions 2, 3, 4 and 5 in this order (position 1 is the pair of
\* the output operand and is not read), each into its own sub-region, and
\* uses them as input_offsets, send_sizes, output_offsets and recv_sizes.
C20_PositionsTwoToFive ==
    \A t \in threads :
        op[t] = "Run"
        => /\ IsPrefix(CopiedPositions(log[t]),
                       [a \in 1..NumIndexOperands |-> a + 1])
           /\ \A k \in 1..Len(pending[t]) :
                 /\ pending[t][k].data = SourceBuffer(t, k - 1)
                 /\ pending[t][k].dst = (k - 1) * NumElements * Int64Limbs
           /\ (\E k \in 1..Len(log[t]) : log[t][k].op = "BlockHostUntilDone")
                 => Len(CopiedPositions(log[t])) = NumIndexOperands
           /\ SlicesFrom(t, 2, 3, 4, 5)

C20_Witness ==
    \E t \in threads :
        /\ Returned(t)
        /\ status[t] = "ok"
        /\ comm_num_ranks = MaxRanks
        /\ config_.num_ragged_rows = MaxRows
        /\ CopiedPositions(log[t]) = << 2, 3, 4, 5 >>
        /\ \E p \in 0..(MaxRows - 1) :
              Cardinality({IndexBuffer(t, pos, p) : pos \in 2..5}) = 4

(***************************************************************************)
(* Properties of the validation of the descriptor (SpecValidate).          *)
(***************************************************************************)
\* row_element_count * ragged_row_count is the element count of the payload
ConsistentDescriptor ==
    config_.ragged_row_element_size * config_.num_ragged_rows
        = check.shape[1] * check.shape[2]

\* C21: CheckImplementable returns an error for an operation whose derived
\* row_element_count * ragged_row_count is not the total element count of
\* the payload.
C21_InconsistentDescriptorRejected ==
    (check.pc = "done" /\ ~ConsistentDescriptor) => check.status # "ok"

(***************************************************************************)
(* Bounds of the reads and of the slices of the peer loop (Spec).          *)
(***************************************************************************)
\* C22: in every run, every index peer that the peer loop has read from
\* the four staged arrays is less than the array length R
\* (num_ragged_rows), for every rank count N and row count R.
C22_PeerReadsBelowRowCount ==
    \A t \in threads :
        (op[t] = "Run" /\ pc[t] = "recv") =>
            peer[t] < config_.num_ragged_rows

\* data_buffer.source_buffer and data_buffer.destination_buffer hold a
\* payload of MaxIdx rows, so that every single offset and size value of an
\* index operand is a row count of the payload
PayloadElements == MaxIdx * config_.ragged_row_element_size

\* offset >= 0, count >= 0 and offset + count <= n, on 64-bit values
WithinBuffer(off, cnt, n) ==
    /\ IsSmall(off)
    /\ IsSmall(cnt)
    /\ ToInt(off) <= n
    /\ ToInt(cnt) <= n - ToInt(off)

\* C23: the slice of every Send lies within the payload source buffer and
\* the slice of every Recv within the payload destination buffer
\* (offset >= 0, count >= 0, offset + count <= element count), for all
\* staged offset and size values.
C23_SlicesWithinPayload ==
    \A t \in threads : \A k \in 1..Len(log[t]) :
        log[t][k].op \in {"Send", "Recv"}
            => WithinBuffer(log[t][k].off, log[t][k].cnt, PayloadElements)

(***************************************************************************)
(* Properties of DynamicParameterBinding (SpecBinding).                    *)
(***************************************************************************)
\* C24: Bind for a dimension that is already bound returns an error and
\* leaves the bindings as they were; after any sequence of Bind calls,
\* GetBinding(d) returns the parameter of the first successful Bind for d
\* and nullopt for a dimension that was never bound.
C24_FirstBindStays ==
    /\ (last_call.op = "Bind"
            /\ last_call.dynamic_dimension \in DOMAIN last_call.before)
          => /\ last_call.status # "ok"
             /\ bindings_ = last_call.before
    /\ last_call.op = "GetBinding"
          => last_call.value
                = IF last_call.dynamic_dimension \in DOMAIN first_bound
                  THEN Some(first_bound[last_call.dynamic_dimension])
                  ELSE NullOpt
    /\ \A d \in Dimensions :
          GetBinding(bindings_, d)
              = IF d \in DOMAIN first_bound
                THEN Some(first_bound[d]) ELSE NullOpt

\* a second Bind of a bound dimension, with another parameter, has failed
C24_Witness ==
    /\ last_call.op = "Bind"
    /\ last_call.status = "internal"
    /\ last_call.dynamic_dimension \in DOMAIN last_call.before
    /\ last_call.before[last_call.dynamic_dimension]
          # last_call.dynamic_parameter
    /\ Cardinality(DOMAIN bindings_) = MaxBindings

\* two entries of the proto have the same target dimension
HasRepeatedTarget(proto) ==
    \E i, j \in 1..Len(proto) :
        /\ i # j
        /\ proto[i].target = proto[j].target
        /\ proto[i].target_num = proto[j].target_num
        /\ proto[i].target_index = proto[j].target_index
        /\ proto[i].target_dim_num = proto[j].target_dim_num

\* an entry of the proto has a target that is neither KPARAM nor KOUTPUT
HasInvalidTarget(proto) ==
    \E i \in 1..Len(proto) : proto[i].target \notin {"KPARAM", "KOUTPUT"}

\* C25: CreateFromProto(ToProto(b)) succeeds and yields a binding with
\* exactly the entries of b; CreateFromProto fails for a proto with two
\* entries of the same target dimension or with an entry whose target is
\* neither KPARAM nor KOUTPUT.
C25_ProtoRoundTrip ==
    last_call.op = "CreateFromProto"
        => /\ last_call.of_binding
                => /\ last_call.status = "ok"
                   /\ last_call.value = Some(bindings_)
           /\ (HasRepeatedTarget(last_call.proto)
                    \/ HasInvalidTarget(last_call.proto))
                => last_call.status # "ok"

\* a binding of an output and a parameter dimension has made the round trip
C25_Witness ==
    /\ last_call.op = "CreateFromProto"
    /\ last_call.of_binding
    /\ last_call.status = "ok"
    /\ Cardinality(DOMAIN bindings_) = MaxBindings
    /\ \E d, e \in DOMAIN bindings_ :
          /\ d.target = "kOutput"
          /\ e.target = "kParam"
          /\ bindings_[d] # bindings_[e]

=============================================================================
